---- MODULE Spec2Model ----
(***************************************************************************)
(* MovementManager of data/scripts/utils.ts: a promise chain of queued     *)
(* legs for one entity, each leg driven by a periodic movement callback    *)
(* (system.runInterval, period 5) and a self-rescheduling rotation         *)
(* callback (system.run).                                                  *)
(*                                                                         *)
(* Lengths are in half blocks, so that Vector3.center() (floor + 0.5) is   *)
(* an integer operation: coordinate 2k is the west edge of block k and     *)
(* 2k + 1 its center.  A leg of `distance` blocks is 2 * distance units.   *)
(*                                                                         *)
(* The manager is the one the trigger builds, new MovementManager(entity), *)
(* with a handler registered for each of onStart, onStop and onComplete:   *)
(* onStartLog, onStopCount and starts[k].fired record their invocations.   *)
(* Impulses are recorded by the leg that applies them and, for the last    *)
(* movement tick, by kind; the write-only wasOnGround and the diagnostic   *)
(* runCommand are left out.                                                *)
(***************************************************************************)
EXTENDS Integers, Sequences, FiniteSets, TLC

\* ---------------------------------------------------------------- bounds
MaxLegs == 2
MaxStarts == 1
MaxStops == 2

\* system.runInterval(moveEntity, 5)
Period == 5

\* ---------------------------------------------------------------- inputs
Vec(a, b, c) == [x |-> a, y |-> b, z |-> c]

\* Positions the world may put the entity at: a corner of block 0 and, one block
\* east, a point on the center line of block 1 (a leg's final teleport moves the
\* entity to the center of its block).
Locations == {Vec(0, 0, 0), Vec(3, 0, 0)}

\* Arguments of move(); options is the set of values given for canJump:
\* {} when the key is absent.
LegInputs ==
    { [direction |-> "north", distance |-> 0, options |-> {}],
      [direction |-> "north", distance |-> 1, options |-> {}],
      [direction |-> "east",  distance |-> 2, options |-> {FALSE}] }

\* ------------------------------------------------------ geometry utility
ISqrt(n) == CHOOSE r \in 0..n : r * r <= n /\ n < (r + 1) * (r + 1)

subtract(v, w) == Vec(v.x - w.x, v.y - w.y, v.z - w.z)

center(v) == Vec(2 * (v.x \div 2) + 1, v.y, 2 * (v.z \div 2) + 1)

length(v) == ISqrt(v.x * v.x + v.y * v.y + v.z * v.z)

\* calculateYaw of the impulse vector of a direction, in degrees:
\* atan2(z, x) * 180 / PI - 90 with north = (0,0,-1), east = (1,0,0).
calculateYaw(direction) ==
    CASE direction = "north" -> -180
      [] direction = "east"  -> -90

\* ----------------------------------------------------------------- state
VARIABLES
    legs,            \* the legs enqueued by move(), in order: the chain this.queue
    leg,             \* per leg: chain status and the closure state of executeMove
    config,          \* this.config
    isStopped,       \* this.isStopped
    intervalHandles, \* this.intervalHandles
    valid,           \* entity.isValid()
    location,        \* entity.location
    onGround,        \* entity.isOnGround
    speed,           \* current value of the movement component
    rotation,        \* entity rotation (yaw) as last set
    intervals,       \* scheduler: per leg, ticks until its runInterval callback fires
    runs,            \* scheduler: per leg, its pending system.run callback
    starts,          \* the continuations attached by start()
    stops,           \* number of calls of stop()
    inTurn,          \* user code is running and has left reactions waiting
    onStartLog,      \* history: legs for which onStart was invoked, in order
    onStopCount,     \* history: invocations of the onStop handler
    impulses,        \* history: legs that applied an impulse in the current tick
    stopAt,          \* history: number of legs reached by the chain at the first stop()
    afterStop,       \* history: effects on the entity performed with the stop flag set
    lastMove,        \* history: what the movement callback run in the last step read and did
    lateMove         \* history: the leg enqueued under the stop flag by the last step, or
                     \* by the step before if the last one was that leg's own step (else 0)

vars == <<legs, leg, config, isStopped, intervalHandles, valid,
          location, onGround, speed, rotation, intervals, runs, starts, stops,
          inTurn, onStartLog, onStopCount, impulses, stopAt, afterStop,
          lastMove, lateMove>>

entityVars == <<valid, location, onGround, speed, rotation>>

Off == -1

Range(s) == {s[i] : i \in DOMAIN s}

NoMove == [leg |-> 0, hit |-> FALSE, air |-> FALSE, impulse |-> "none"]

NewLeg ==
    [status |-> "queued", how |-> "none", distanceTraveled |-> 0,
     startPosition |-> Vec(0, 0, 0), climbing |-> FALSE, handlesAtResolve |-> 0,
     speedResets |-> 0, teleports |-> 0]

Init ==
    /\ legs = <<>>
    /\ leg = <<>>
    /\ config = [canJump |-> TRUE]
    /\ isStopped = FALSE
    /\ intervalHandles = <<>>
    /\ valid = TRUE
    /\ location \in Locations
    /\ onGround = TRUE
    /\ speed = "default"
    /\ rotation = "initial"
    /\ intervals = <<>>
    /\ runs = <<>>
    /\ starts = <<>>
    /\ stops = 0
    /\ inTurn = FALSE
    /\ onStartLog = <<>>
    /\ onStopCount = 0
    /\ impulses = {}
    /\ stopAt = -1
    /\ afterStop = {}
    /\ lastMove = NoMove
    /\ lateMove = 0

\* ------------------------------------------------------------ the chain
\* Faulty variant of Resolved: the chain moves on once a leg has begun (the promise
\* of executeMove is not returned by the step).
ResolvedOnceBegun(i) == IF i = 0 THEN TRUE ELSE leg[i].status # "queued"

\* The promise this.queue held after the i-th move() has resolved (0: the
\* constructor's Promise.resolve()).
Resolved(i) == IF i = 0 THEN TRUE ELSE leg[i].status = "resolved"

\* Faulty variant of StepReady: the step is not chained on this.queue, it runs as soon as
\* it is queued.
StepReadyUnchained(i) ==
    /\ i \in DOMAIN legs
    /\ leg[i].status = "queued"

\* The step appended by move() for leg i is the next reaction to run.
StepReady(i) ==
    /\ i \in DOMAIN legs
    /\ leg[i].status = "queued"
    /\ Resolved(i - 1)
    /\ \A k \in DOMAIN starts : starts[k].upTo < i => starts[k].fired > 0

\* Faulty variant of CompleteReady: start() notifies without waiting for this.queue.
CompleteReadyEager(k) ==
    /\ k \in DOMAIN starts
    /\ starts[k].fired = 0

\* The continuation attached by the k-th start() is the next reaction to run.
CompleteReady(k) ==
    /\ k \in DOMAIN starts
    /\ starts[k].fired = 0
    /\ Resolved(starts[k].upTo)
    /\ \A j \in 1..starts[k].upTo : leg[j].status = "resolved"
    /\ \A j \in 1..(k - 1) : starts[j].fired > 0

MicrotaskReady ==
    \/ \E i \in DOMAIN legs : StepReady(i)
    \/ \E k \in DOMAIN starts : CompleteReady(k)

\* User code and the world act between callbacks: once the reactions have
\* drained, or in the turn of user code that is still running.
CanCall == inTurn \/ ~MicrotaskReady

\* Scheduler handles: what system.runInterval and system.run return for leg i.
IntervalHandle(i) == <<"interval", i>>
RunHandle(i) == <<"run", i>>

\* Faulty variant of clearAllIntervals: the list is emptied, the callbacks are not cancelled.
clearAllIntervalsNoCancel(registered, pending) ==
    [intervals |-> registered, runs |-> pending, intervalHandles |-> <<>>]

\* Faulty variant of clearAllIntervals: the callbacks are cancelled, the list is kept.
clearAllIntervalsKeepList(registered, pending) ==
    [intervals |-> [i \in DOMAIN registered |->
                      IF IntervalHandle(i) \in Range(intervalHandles)
                      THEN Off ELSE registered[i]],
     runs |-> pending,
     intervalHandles |-> intervalHandles]

\* clearAllIntervals: system.clearRun on every tracked handle, then empty the list.
\* clearRun cancels a periodic and a one-shot callback alike.
clearAllIntervals(registered, pending) ==
    [intervals |-> [i \in DOMAIN registered |->
                      IF IntervalHandle(i) \in Range(intervalHandles)
                      THEN Off ELSE registered[i]],
     runs |-> [i \in DOMAIN pending |->
                 IF RunHandle(i) \in Range(intervalHandles)
                 THEN "none" ELSE pending[i]],
     intervalHandles |-> <<>>]

\* Faulty variant of ShouldAbort: the stop flag is not consulted.
ShouldAbortInvalidOnly == ~valid

\* if (this.isStopped || !this.entity.isValid()), in the step and in both callbacks
ShouldAbort == isStopped \/ ~valid

\* resolve() of the promise of executeMove for leg i (a second call changes nothing),
\* or the return of the step of leg i; `handles` is the tracked list at that moment.
Settle(L, i, how, handles) ==
    IF L[i].status = "resolved" THEN L
    ELSE [L EXCEPT ![i].status = "resolved", ![i].how = how,
                   ![i].handlesAtResolve = Len(handles)]

\* The closure of executeMove (distanceTraveled, startPosition, climbing) exists as
\* long as something can still run in it: once leg i has resolved and neither of
\* its callbacks is registered, its variables are gone.
Collected(L, registered, pending) ==
    [i \in DOMAIN L |->
        IF L[i].status = "resolved" /\ registered[i] = Off /\ pending[i] = "none"
        THEN [L[i] EXCEPT !.distanceTraveled = 0, !.startPosition = Vec(0, 0, 0),
                          !.climbing = FALSE]
        ELSE L[i]]

\* The record of the effects `kinds` (calls on the entity or its movement
\* component) performed by a step or a callback: kept if this.isStopped is set.
Performed(kinds) == IF isStopped THEN afterStop \cup kinds ELSE afterStop

\* ------------------------------------------------------------ operations
\* Faulty variant of MergedConfig: the manager's defaults override the leg's options.
MergedConfigDefaultsWin(options) == [canJump |-> config.canJump]

\* const config = { ...this.config, ...options }
MergedConfig(options) ==
    [canJump |-> IF options = {} THEN config.canJump ELSE CHOOSE b \in options : TRUE]

\* Faulty variant of Move: enqueueing a leg clears the stop flag.
MoveResuming(in) ==
    /\ lastMove' = NoMove
    /\ lateMove' = IF isStopped THEN Len(legs) + 1 ELSE 0
    /\ CanCall
    /\ Len(legs) < MaxLegs
    /\ legs' = Append(legs, [direction |-> in.direction, distance |-> in.distance,
                             options |-> in.options,
                             config |-> MergedConfig(in.options)])
    /\ isStopped' = FALSE
    /\ leg' = Append(leg, NewLeg)
    /\ intervals' = Append(intervals, Off)
    /\ runs' = Append(runs, "none")
    /\ UNCHANGED <<config, intervalHandles, entityVars,
                   starts, stops, onStartLog, onStopCount, impulses, stopAt, afterStop>>
    /\ inTurn' = MicrotaskReady'

\* move(direction, distance, options): appends one step to the chain.
Move(in) ==
    /\ lastMove' = NoMove
    /\ lateMove' = IF isStopped THEN Len(legs) + 1 ELSE 0
    /\ CanCall
    /\ Len(legs) < MaxLegs
    /\ legs' = Append(legs, [direction |-> in.direction, distance |-> in.distance,
                             options |-> in.options,
                             config |-> MergedConfig(in.options)])
    /\ leg' = Append(leg, NewLeg)
    /\ intervals' = Append(intervals, Off)
    /\ runs' = Append(runs, "none")
    /\ UNCHANGED <<config, isStopped, intervalHandles, entityVars,
                   starts, stops, onStartLog, onStopCount, impulses, stopAt, afterStop>>
    /\ inTurn' = MicrotaskReady'

\* Faulty variant of Start: start() re-arms a stopped manager.
StartRearming ==
    /\ lastMove' = NoMove
    /\ lateMove' = 0
    /\ CanCall
    /\ Len(starts) < MaxStarts
    /\ isStopped' = FALSE
    /\ starts' = Append(starts, [upTo |-> Len(legs), fired |-> 0])
    /\ UNCHANGED <<legs, leg, config, intervalHandles,
                   entityVars, intervals, runs, stops, onStartLog, onStopCount,
                   impulses, stopAt, afterStop>>
    /\ inTurn' = MicrotaskReady'

\* start(): attaches the onComplete continuation to the chain as it stands.
Start ==
    /\ lastMove' = NoMove
    /\ lateMove' = 0
    /\ CanCall
    /\ Len(starts) < MaxStarts
    /\ starts' = Append(starts, [upTo |-> Len(legs), fired |-> 0])
    /\ UNCHANGED <<legs, leg, config, isStopped, intervalHandles,
                   entityVars, intervals, runs, stops, onStartLog, onStopCount,
                   impulses, stopAt, afterStop>>
    /\ inTurn' = MicrotaskReady'

\* Faulty variant of StopNotify: onStop is guarded against repeat firing.
StopNotifyOnce == IF isStopped THEN onStopCount ELSE onStopCount + 1

\* if (this.callbacks.onStop) this.callbacks.onStop(): the handler's invocations,
\* for a manager whose onStop handler is registered.
StopNotify == onStopCount + 1

\* stop()
Stop ==
    /\ lastMove' = NoMove
    /\ lateMove' = 0
    /\ CanCall
    /\ stops < MaxStops
    /\ isStopped' = TRUE
    /\ intervals' = clearAllIntervals(intervals, runs).intervals
    /\ runs' = clearAllIntervals(intervals, runs).runs
    /\ intervalHandles' = clearAllIntervals(intervals, runs).intervalHandles
    /\ onStopCount' = StopNotify
    /\ stops' = stops + 1
    /\ stopAt' = IF stopAt = -1
                 THEN Cardinality({i \in DOMAIN leg : leg[i].status # "queued"})
                 ELSE stopAt
    /\ UNCHANGED <<legs, leg, config, entityVars, starts,
                   onStartLog, impulses, afterStop>>
    /\ inTurn' = MicrotaskReady'

\* The entity is removed from the world (by the world, or by user code).
Invalidate ==
    /\ lastMove' = NoMove
    /\ lateMove' = 0
    /\ CanCall
    /\ valid
    /\ valid' = FALSE
    /\ UNCHANGED <<legs, leg, config, isStopped, intervalHandles,
                   location, onGround, speed, rotation, intervals, runs, starts,
                   stops, onStartLog, onStopCount, impulses, stopAt, afterStop>>
    /\ inTurn' = MicrotaskReady'

\* ------------------------------------------------------- chain reactions
\* if (this.callbacks.onStart) this.callbacks.onStart(direction, distance, config):
\* the handler's invocations, for a manager whose onStart handler is registered.
StartNotify(i) == Append(onStartLog, i)

\* The arguments the handler receives for leg i: the step's direction, distance and
\* the configuration merged by move().
StartArgs(i) ==
    [direction |-> legs[i].direction, distance |-> legs[i].distance,
     config |-> legs[i].config]

\* The step of leg i, first branch: stopped or invalid, clear and return.
MoveNoOp(i) ==
    /\ lastMove' = NoMove
    /\ lateMove' = IF lateMove = i THEN i ELSE 0
    /\ StepReady(i)
    /\ ShouldAbort
    /\ intervals' = clearAllIntervals(intervals, runs).intervals
    /\ runs' = clearAllIntervals(intervals, runs).runs
    /\ intervalHandles' = clearAllIntervals(intervals, runs).intervalHandles
    /\ leg' = Settle(leg, i, "noop", intervalHandles')
    /\ inTurn' = FALSE
    /\ UNCHANGED <<legs, config, isStopped, entityVars, starts,
                   stops, onStartLog, onStopCount, impulses, stopAt, afterStop>>

\* updateRotation() as called at the end of executeMove: not stopped and valid
\* there, so it sets the rotation and reschedules itself while below the target.
FirstRotation(i) == IF 0 < 2 * legs[i].distance THEN "new" ELSE "none"

\* The step of leg i, second branch: onStart, then executeMove. The onStart
\* handler is user code: it may remove the entity (executeMove's validity check),
\* and it may call stop(), after which executeMove still sets the speed and the
\* rotation and registers the movement callback, and the first updateRotation()
\* call finds the flag, cancels the tracked handles and resolves.
MoveExecute(i) ==
    /\ lastMove' = NoMove
    /\ lateMove' = 0
    /\ StepReady(i)
    /\ ~ShouldAbort
    /\ onStartLog' = StartNotify(i)
    /\ inTurn' = FALSE
    /\ \E handler \in {"returns", "removes", "stops"} :
         CASE handler = "removes" ->
              /\ valid' = FALSE
              /\ intervals' = clearAllIntervals(intervals, runs).intervals
              /\ runs' = clearAllIntervals(intervals, runs).runs
              /\ intervalHandles' = clearAllIntervals(intervals, runs).intervalHandles
              /\ leg' = Settle(leg, i, "invalid", intervalHandles')
              /\ UNCHANGED <<location, onGround, speed, rotation, afterStop,
                             isStopped, stops, onStopCount, stopAt>>
           [] handler = "stops" ->
              /\ stops < MaxStops
              /\ isStopped' = TRUE
              /\ onStopCount' = StopNotify
              /\ stops' = stops + 1
              /\ stopAt' = IF stopAt = -1 THEN i ELSE stopAt
              /\ speed' = "zero"
              /\ rotation' = calculateYaw(legs[i].direction)
              /\ afterStop' = afterStop \cup {"setCurrentValue", "setRotation"}
              /\ intervals' = clearAllIntervals(intervals, runs).intervals
              /\ runs' = clearAllIntervals(intervals, runs).runs
              /\ intervalHandles' = clearAllIntervals(intervals, runs).intervalHandles
              /\ leg' = Settle(leg, i, "abort", intervalHandles')
              /\ UNCHANGED <<valid, location, onGround>>
           [] OTHER ->
              /\ speed' = "zero"
              /\ rotation' = calculateYaw(legs[i].direction)
              /\ leg' = [leg EXCEPT ![i].status = "running",
                                    ![i].startPosition = center(location),
                                    ![i].distanceTraveled = 0,
                                    ![i].climbing = FALSE]
              /\ intervals' = [intervals EXCEPT ![i] = Period]
              /\ intervalHandles' = Append(intervalHandles, IntervalHandle(i))
              /\ runs' = [runs EXCEPT ![i] = FirstRotation(i)]
              /\ afterStop' = Performed({"setCurrentValue", "setRotation"})
              /\ UNCHANGED <<valid, location, onGround,
                             isStopped, stops, onStopCount, stopAt>>
    /\ UNCHANGED <<legs, config, starts, impulses>>

\* The continuation of the k-th start(): if (this.callbacks.onComplete) onComplete().
\* fired counts the handler's invocations, for a manager whose onComplete handler
\* is registered.
Complete(k) ==
    /\ lastMove' = NoMove
    /\ lateMove' = 0
    /\ CompleteReady(k)
    /\ starts' = [starts EXCEPT ![k].fired = @ + 1]
    /\ inTurn' = FALSE
    /\ UNCHANGED <<legs, leg, config, isStopped, intervalHandles,
                   entityVars, intervals, runs, stops, onStartLog, onStopCount,
                   impulses, stopAt, afterStop>>

\* --------------------------------------------------- scheduler callbacks
\* Faulty variant of MoveRule: the block above the obstacle is not examined.
MoveRuleAnyObstacle(i, hit, air) ==
    IF legs[i].config.canJump /\ hit /\ onGround /\ ~leg[i].climbing
    THEN "climbStart"
    ELSE IF leg[i].climbing /\ ~onGround THEN "climbing"
    ELSE IF leg[i].climbing /\ onGround THEN "climbEnd"
    ELSE IF onGround THEN "advance"
    ELSE "wait"

\* The branch of moveEntity's if/else-if chain taken on a tick that passed the
\* abort check; hit: the ray hit a block, air: the block above it is air.
MoveRule(i, hit, air) ==
    IF legs[i].config.canJump /\ hit /\ air /\ onGround /\ ~leg[i].climbing
    THEN "climbStart"
    ELSE IF leg[i].climbing /\ ~onGround THEN "climbing"
    ELSE IF leg[i].climbing /\ onGround THEN "climbEnd"
    ELSE IF onGround THEN "advance"
    ELSE "wait"

\* Faulty variant of Advanced: the displacement is subtracted from the accumulator.
AdvancedBackwards(i) ==
    leg[i].distanceTraveled - length(subtract(center(location), leg[i].startPosition))

\* The impulse applied by the branch `rule`; the advance branch applies one unless
\* it takes the success exit.
Impulse(rule, done) ==
    CASE rule = "climbStart" -> "up"
      [] rule = "climbing" -> "halfForward"
      [] rule = "advance" /\ ~done -> "forward"
      [] OTHER -> "none"

\* distanceTraveled += currentPosition.subtract(startPosition).length()
Advanced(i) ==
    leg[i].distanceTraveled + length(subtract(center(location), leg[i].startPosition))

\* Faulty variant of finalPosition: the position is not aligned to the block.
finalPositionUnaligned == location

\* const finalPosition = new Vector3(entity.location...).center()
finalPosition == center(location)

\* History of the success exit of leg i: movementComponent.resetToDefaultValue()
\* and entity.teleport(finalPosition) have been called once more.
Exited(L, i) == [L EXCEPT ![i].speedResets = @ + 1, ![i].teleports = @ + 1]

\* moveEntity, the runInterval callback of leg i. The ray probe is an input from
\* the world; the block above is examined only if the ray hit a block.
FireMove(i) ==
    /\ i \in DOMAIN intervals
    /\ intervals[i] = 0
    /\ ~MicrotaskReady
    /\ inTurn' = FALSE
    /\ lateMove' = 0
    /\ LET rearmed == [intervals EXCEPT ![i] = Period]
       IN IF ShouldAbort
          THEN /\ intervals' = clearAllIntervals(rearmed, runs).intervals
               /\ runs' = clearAllIntervals(rearmed, runs).runs
               /\ intervalHandles' = clearAllIntervals(rearmed, runs).intervalHandles
               /\ leg' = Collected(Settle(leg, i, "abort", intervalHandles'),
                                    intervals', runs')
               /\ lastMove' = NoMove
               /\ UNCHANGED <<location, speed, impulses, afterStop>>
          ELSE \E hit \in BOOLEAN : \E air \in IF hit THEN BOOLEAN ELSE {FALSE} :
                 LET rule == MoveRule(i, hit, air)
                     done == rule = "advance" /\ ~(Advanced(i) < 2 * legs[i].distance)
                     push == rule \in {"climbStart", "climbing"}
                               \/ (rule = "advance" /\ ~done)
                     moved == [leg EXCEPT
                                 ![i].climbing = IF rule = "climbStart" THEN TRUE
                                                 ELSE IF rule = "climbEnd" THEN FALSE
                                                 ELSE @,
                                 ![i].distanceTraveled =
                                     IF rule = "advance" THEN Advanced(i) ELSE @,
                                 ![i].startPosition =
                                     IF rule = "advance" THEN center(location) ELSE @]
                 IN /\ impulses' = IF push THEN impulses \cup {i} ELSE impulses
                    /\ lastMove' = [leg |-> i, hit |-> hit, air |-> air,
                                    impulse |-> Impulse(rule, done)]
                    /\ afterStop' =
                         Performed((IF push THEN {"applyImpulse"} ELSE {}) \cup
                                   (IF done THEN {"resetToDefaultValue", "teleport"}
                                    ELSE {}))
                    /\ IF done
                       THEN /\ intervals' = clearAllIntervals(rearmed, runs).intervals
                            /\ runs' = clearAllIntervals(rearmed, runs).runs
                            /\ intervalHandles' =
                                   clearAllIntervals(rearmed, runs).intervalHandles
                            /\ speed' = "default"
                            /\ location' = finalPosition
                            /\ leg' = Collected(Settle(Exited(moved, i), i, "success",
                                                        intervalHandles'),
                                                 intervals', runs')
                       ELSE /\ intervals' = rearmed
                            /\ leg' = moved
                            /\ UNCHANGED <<intervalHandles, location, speed, runs>>
    /\ UNCHANGED <<legs, config, isStopped, valid, onGround, rotation,
                   starts, stops, onStartLog, onStopCount, stopAt>>

\* updateRotation, run by the scheduler as the system.run callback of leg i.
FireRot(i) ==
    /\ lastMove' = NoMove
    /\ lateMove' = 0
    /\ i \in DOMAIN runs
    /\ runs[i] = "due"
    /\ ~MicrotaskReady
    /\ inTurn' = FALSE
    /\ LET taken == [runs EXCEPT ![i] = "none"]
       IN IF ShouldAbort
       THEN /\ intervals' = clearAllIntervals(intervals, taken).intervals
            /\ runs' = clearAllIntervals(intervals, taken).runs
            /\ intervalHandles' = clearAllIntervals(intervals, taken).intervalHandles
            /\ leg' = Collected(Settle(leg, i, "abort", intervalHandles'),
                                 intervals', runs')
            /\ UNCHANGED <<rotation, afterStop>>
       ELSE IF leg[i].distanceTraveled < 2 * legs[i].distance
            THEN /\ rotation' = calculateYaw(legs[i].direction)
                 /\ runs' = [runs EXCEPT ![i] = "new"]
                 /\ afterStop' = Performed({"setRotation"})
                 /\ UNCHANGED <<leg, intervals, intervalHandles>>
            ELSE /\ runs' = [runs EXCEPT ![i] = "none"]
                 /\ leg' = Collected(leg, intervals, runs')
                 /\ UNCHANGED <<intervals, intervalHandles, rotation, afterStop>>
    /\ UNCHANGED <<legs, config, isStopped, valid, location, onGround,
                   speed, starts, stops, onStartLog, onStopCount, impulses, stopAt>>

\* The code reads the entity's position and ground contact in moveEntity and at the
\* start of a leg only, so the world's moves are folded into the ticks after which
\* one of those can read them: a tick in which a movement callback comes due, and
\* any tick while no movement callback is registered.
WorldMoves ==
    \/ \A i \in DOMAIN intervals : intervals[i] = Off
    \/ \E i \in DOMAIN intervals : intervals[i] = 1

\* The scheduler's next tick, once every callback due in this one has run: callbacks
\* scheduled by system.run become due, interval countdowns advance, and the world
\* has moved the entity.
NextTick ==
    /\ lastMove' = NoMove
    /\ lateMove' = 0
    /\ ~MicrotaskReady
    /\ \A i \in DOMAIN intervals : intervals[i] # 0 /\ runs[i] # "due"
    /\ intervals' = [i \in DOMAIN intervals |->
                       IF intervals[i] > 0 THEN intervals[i] - 1 ELSE intervals[i]]
    /\ runs' = [i \in DOMAIN runs |-> IF runs[i] = "new" THEN "due" ELSE runs[i]]
    /\ IF valid /\ WorldMoves
       THEN location' \in Locations /\ onGround' \in BOOLEAN
       ELSE UNCHANGED <<location, onGround>>
    /\ impulses' = {}
    /\ inTurn' = FALSE
    /\ UNCHANGED <<legs, leg, config, isStopped, intervalHandles, valid,
                   speed, rotation, starts, stops, onStartLog, onStopCount, stopAt,
                   afterStop>>

Next ==
    \/ \E in \in LegInputs : Move(in)
    \/ Start
    \/ Stop
    \/ Invalidate
    \/ \E i \in DOMAIN legs : MoveNoOp(i)
    \/ \E i \in DOMAIN legs : MoveExecute(i)
    \/ \E k \in DOMAIN starts : Complete(k)
    \/ \E i \in DOMAIN legs : FireMove(i)
    \/ \E i \in DOMAIN legs : FireRot(i)
    \/ NextTick

Spec == Init /\ [][Next]_vars

\* The scheduler keeps delivering ticks and running the callbacks that are due, and
\* the engine runs every reaction that is ready; user code promises nothing.
Fairness ==
    /\ WF_vars(NextTick)
    /\ \A i \in 1..MaxLegs :
         /\ WF_vars(MoveNoOp(i))
         /\ WF_vars(MoveExecute(i))
         /\ WF_vars(FireMove(i))
         /\ WF_vars(FireRot(i))
    /\ \A k \in 1..MaxStarts : WF_vars(Complete(k))

LiveSpec == Init /\ [][Next]_vars /\ Fairness

\* ---------------------------------------------------------------- claims
Registered(i) == intervals[i] # Off
Pending(i) == runs[i] # "none"

\* Every leg has resolved and every continuation of start() has run.
Drained ==
    /\ \A i \in DOMAIN legs : leg[i].status = "resolved"
    /\ \A k \in DOMAIN starts : starts[k].fired > 0

\* Leg i has begun one of its effects.
Begun(i) ==
    \/ leg[i].status = "running"
    \/ leg[i].status = "resolved" /\ leg[i].how # "noop"
    \/ i \in Range(onStartLog)
    \/ Registered(i)
    \/ Pending(i)
    \/ i \in impulses

\* C1: a leg has begun its effects (onStart, executeMove's setup, a registered or
\* pending callback, an impulse) only if every leg enqueued before it has resolved,
\* and the onStart handler sees the legs in enqueue order.
C1_Ordering ==
    /\ \A i \in DOMAIN legs :
         Begun(i) => \A j \in 1..(i - 1) : leg[j].status = "resolved"
    /\ \A a, b \in DOMAIN onStartLog : a < b => onStartLog[a] < onStartLog[b]

C1_Witness ==
    /\ Len(legs) = 2
    /\ leg[1].how = "success"
    /\ leg[2].status = "running"
    /\ onStartLog = <<1, 2>>

\* C2: at most one movement callback is registered, it belongs to a leg in flight,
\* and within one tick at most one leg applies an impulse.
C2_OneMover ==
    /\ Cardinality({i \in DOMAIN legs : Registered(i)}) <= 1
    /\ \A i \in DOMAIN legs : Registered(i) => leg[i].status = "running"
    /\ Cardinality(impulses) <= 1

C2_Witness ==
    /\ Len(legs) = 2
    /\ leg[1].how = "success"
    /\ 2 \in impulses

\* C3: once stop() has been called with M legs reached by the chain, no later leg
\* invokes onStart, applies an impulse or registers a callback: it stays queued
\* until its step runs and that step resolves it as a no-op. With M = 0 the whole
\* chain has resolved as soon as no reaction is left to run.
C3_StopNoOps ==
    isStopped =>
      /\ \A i \in DOMAIN legs :
           i > stopAt =>
             /\ i \notin Range(onStartLog)
             /\ i \notin impulses
             /\ ~Registered(i) /\ ~Pending(i)
             /\ \/ leg[i].status = "queued"
                \/ leg[i].status = "resolved" /\ leg[i].how = "noop"
      /\ (stopAt = 0 /\ ~MicrotaskReady) => Drained

C3_Witness ==
    /\ isStopped
    /\ stopAt = 1
    /\ Len(legs) = 2
    /\ onStartLog = <<1>>
    /\ leg[2].status = "resolved" /\ leg[2].how = "noop"

\* C4: after stop(), with ticks delivered and the entity valid, every leg resolves
\* and every continuation of start() runs.
C4_StopDrains == (isStopped /\ valid) ~> (Drained \/ ~valid)

\* C5: the tracked handle list was empty at the moment each resolved leg resolved.
C5_EmptyAtResolve ==
    \A i \in DOMAIN legs :
      leg[i].status = "resolved" => leg[i].handlesAtResolve = 0

C5_Witness ==
    /\ Len(legs) = 2
    /\ leg[1].how = "success"
    /\ leg[2].how = "abort"

\* C6: at most one movement callback is registered and at most one rotation
\* callback is pending.
C6_OneOfEach ==
    /\ Cardinality({i \in DOMAIN legs : Registered(i)}) <= 1
    /\ Cardinality({i \in DOMAIN legs : Pending(i)}) <= 1

\* C7: every registered or pending callback of a leg is in the tracked handle list,
\* and a resolved leg has no callback left with the scheduler.
C7_TrackedAndCleared ==
    \A i \in DOMAIN legs :
      /\ Registered(i) => IntervalHandle(i) \in Range(intervalHandles)
      /\ Pending(i) => RunHandle(i) \in Range(intervalHandles)
      /\ leg[i].status = "resolved" => ~Registered(i) /\ ~Pending(i)

\* C8: the continuation of a start() runs at most once and only when every leg
\* enqueued before the call has resolved, and it has run (invoking onComplete) once
\* those legs have resolved and no reaction is left to run.
C8_CompleteOnce ==
    \A k \in DOMAIN starts :
      LET before == 1..starts[k].upTo
          resolved == \A j \in before : leg[j].status = "resolved"
      IN /\ starts[k].fired <= 1
         /\ starts[k].fired > 0 => resolved
         /\ (resolved /\ ~MicrotaskReady) => starts[k].fired = 1

C8_Witness ==
    /\ Len(legs) = 2
    /\ Len(starts) = 1
    /\ starts[1].upTo = 2
    /\ starts[1].fired = 1
    /\ leg[1].how = "success"
    /\ leg[2].how = "success"

\* C9: once the entity is invalid, with ticks delivered and no stop(), every leg
\* resolves and every continuation of start() runs.
C9_InvalidDrains == (~valid /\ ~isStopped) ~> (Drained \/ isStopped)

\* C10: k calls of stop() have invoked the onStop handler k times and leave the
\* stop flag set and the tracked handle list empty.
C10_StopEachTime ==
    /\ onStopCount = stops
    /\ stops > 0 => isStopped /\ intervalHandles = <<>>

C10_Witness ==
    /\ stops = 2
    /\ onStopCount = 2
    /\ Len(legs) = 2
    /\ leg[1].how = "success"

\* C11: from one step of a running leg to the next its distance accumulator never
\* decreases, and the leg takes the success exit only in a movement tick at which
\* the entity is grounded, the leg is not climbing and the accumulator has reached
\* the target distance.
C11_Accumulates ==
    [][\A i \in DOMAIN leg :
         leg[i].status = "running" =>
           /\ leg'[i].distanceTraveled >= leg[i].distanceTraveled
                \/ (leg'[i].status = "resolved" /\ ~Pending(i)')
           /\ leg'[i].how = "success" =>
                /\ onGround
                /\ ~leg[i].climbing
                /\ intervals[i] = 0
                /\ Pending(i)' => leg'[i].distanceTraveled >= 2 * legs[i].distance
                /\ ~Pending(i)' => legs[i].distance <= 0]_vars

C11_Witness ==
    \E i \in DOMAIN legs :
      /\ leg[i].how = "success"
      /\ legs[i].distance = 2
      /\ leg[i].distanceTraveled = 4

C13_QuietAfterStop ==
    [][/\ isStopped' =>
            /\ afterStop' = {}
            /\ \A i \in DOMAIN legs' : ~Registered(i)'
       /\ isStopped =>
            \A i \in DOMAIN legs :
              /\ runs[i] = "none" => runs'[i] = "none"
              /\ runs[i] = "new" => runs'[i] \in {"new", "due"}
              /\ runs[i] = "due" => runs'[i] \in {"due", "none"}
              /\ (runs[i] = "due" /\ runs'[i] = "none") =>
                   /\ intervalHandles' = <<>>
                   /\ leg'[i].status = "resolved"
                   /\ <<location, speed, rotation, impulses>>' =
                        <<location, speed, rotation, impulses>>]_vars

\* C14: in a movement tick of leg i that passed the abort check, with m what the
\* callback read and did: the upward impulse is applied exactly if canJump is
\* enabled, the ray hit a block, the block above it is air, the entity is grounded
\* and the leg is not climbing, and then climbing becomes true and nothing else
\* changes; otherwise a climbing leg in the air applies the half impulse, a
\* climbing leg on the ground stops climbing, a grounded leg advances (with the
\* forward impulse unless it takes the success exit), and an airborne leg that
\* is not climbing changes nothing. One impulse at most is applied in a tick, and
\* a leg with canJump disabled never climbs.
C14_TransitionTable ==
    [][/\ Cardinality(impulses') <= 1
       /\ \A i \in DOMAIN legs' : ~legs'[i].config.canJump => ~leg'[i].climbing
       /\ \A i \in DOMAIN legs :
            lastMove'.leg = i =>
              LET m == lastMove'
                  was == leg[i]
                  now == leg'[i]
                  first == /\ legs[i].config.canJump /\ m.hit /\ m.air
                           /\ onGround /\ ~was.climbing
                  kept == /\ now.distanceTraveled = was.distanceTraveled
                          /\ now.startPosition = was.startPosition
                          /\ now.status = "running"
                          /\ <<location, speed, rotation, intervalHandles, runs>>' =
                               <<location, speed, rotation, intervalHandles, runs>>
              IN /\ was.status = "running"
                 /\ (m.impulse # "none") <=> (i \in impulses' /\ i \notin impulses)
                 /\ (m.impulse = "up") <=> first
                 /\ first => now.climbing /\ kept
                 /\ (~first /\ was.climbing /\ ~onGround) =>
                      m.impulse = "halfForward" /\ now.climbing /\ kept
                 /\ (~first /\ was.climbing /\ onGround) =>
                      m.impulse = "none" /\ ~now.climbing /\ kept
                 /\ (~first /\ ~was.climbing /\ onGround) =>
                      /\ ~now.climbing
                      /\ (m.impulse = "forward") <=> (now.status = "running")
                      /\ (m.impulse = "none") <=> (now.how = "success")
                 /\ (~first /\ ~was.climbing /\ ~onGround) =>
                      m.impulse = "none" /\ now = was /\ kept]_vars

C14_Witness ==
    /\ lastMove.leg \in DOMAIN legs
    /\ lastMove.impulse = "up"
    /\ lastMove.hit /\ lastMove.air
    /\ leg[lastMove.leg].climbing
    /\ lastMove.leg \in impulses

\* C15: a leg that resolved by the success exit has reset the speed to default
\* once and teleported the entity once, any other leg never has; the step in
\* which a leg resolves by the success exit leaves no tracked handle and no
\* registered movement callback, the speed at default and the entity at the
\* center of the block it was in; the step in which a leg resolves in any other
\* way (no-op, invalid entity, abort) leaves the position as it was and does not
\* bring the speed back to default.
C15_SuccessExit ==
    [][\A i \in DOMAIN legs' :
         LET success == leg'[i].status = "resolved" /\ leg'[i].how = "success"
         IN /\ leg'[i].speedResets = IF success THEN 1 ELSE 0
            /\ leg'[i].teleports = IF success THEN 1 ELSE 0
            /\ (i \in DOMAIN legs /\ leg[i].status # "resolved"
                  /\ leg'[i].status = "resolved") =>
                 IF success
                 THEN /\ intervalHandles' = <<>>
                      /\ \A j \in DOMAIN legs : ~Registered(j)'
                      /\ speed' = "default"
                      /\ location' = center(location)
                 ELSE /\ location' = location
                      /\ speed' = "default" => speed = "default"]_vars

C15_Witness ==
    /\ Len(legs) = 2
    /\ leg[1].how = "success" /\ leg[1].teleports = 1 /\ leg[1].speedResets = 1
    /\ leg[2].how = "abort" /\ leg[2].teleports = 0 /\ leg[2].speedResets = 0
    /\ speed = "zero"

\* C16: as long as stop() has not been called and the entity is valid, a running
\* leg stays running with its movement callback registered (at most one period from
\* its next call), every later leg stays queued and no continuation of a start()
\* made after the leg was enqueued runs, unless the leg takes the success exit,
\* which it does only with the accumulator at or above the target distance.
C16_NoTimeout ==
    [][(~isStopped' /\ valid') =>
         \A i \in DOMAIN legs :
           leg[i].status = "running" =>
             IF leg'[i].status = "running"
             THEN /\ Registered(i)'
                  /\ intervals'[i] \in 0..Period
                  /\ \A j \in DOMAIN legs' : j > i => leg'[j].status = "queued"
                  /\ \A k \in DOMAIN starts' :
                       starts'[k].upTo >= i => starts'[k].fired = 0
             ELSE /\ leg'[i].how = "success"
                  /\ lastMove'.leg = i
                  /\ Pending(i)' => leg'[i].distanceTraveled >= 2 * legs[i].distance
                  /\ ~Pending(i)' => legs[i].distance <= 0]_vars

C16_Witness ==
    /\ ~isStopped /\ valid
    /\ Len(legs) = 2
    /\ leg[1].status = "running" /\ Registered(1)
    /\ lastMove.leg = 1 /\ lastMove.impulse = "none"
    /\ ~onGround /\ ~leg[1].climbing
    /\ leg[1].distanceTraveled < 2 * legs[1].distance
    /\ leg[2].status = "queued"
    /\ Len(starts) = 1 /\ starts[1].upTo = 2 /\ starts[1].fired = 0

\* C17: every leg in flight (started and not resolved) has a rotation callback
\* pending with the scheduler, whatever its target distance.
C17_RotationPending ==
    \A i \in DOMAIN legs : leg[i].status = "running" => Pending(i)

\* C18: a callback of a leg that has already resolved, when it runs, leaves every
\* other leg's callbacks as they were and removes no other leg's movement handle
\* from the tracked list.
C18_StaleCallbackHarmless ==
    [][\A i \in DOMAIN legs :
         (leg[i].status = "resolved" /\ runs[i] = "due" /\ runs'[i] # "due") =>
           \A j \in DOMAIN legs \ {i} :
             /\ intervals'[j] = intervals[j]
             /\ runs'[j] = runs[j]
             /\ IntervalHandle(j) \in Range(intervalHandles)
                  => IntervalHandle(j) \in Range(intervalHandles')]_vars

\* C19: no step clears the stop flag. A leg enqueued with the flag set (lateMove)
\* is queued with no callback; with the flag set, a queued leg leaves the queue
\* only by resolving as a no-op, in a step that invokes no onStart and has no
\* effect on the entity, and it does so as soon as the leg before it has resolved
\* and the reactions run; a leg resolved as a no-op never changes again.
C19_StoppedForGood ==
    [][/\ isStopped => isStopped'
       /\ (isStopped /\ Len(legs') > Len(legs)) => lateMove' = Len(legs')
       /\ lateMove' # 0 =>
            /\ isStopped'
            /\ lateMove' \in DOMAIN legs'
            /\ leg'[lateMove'].status = "queued" \/ leg'[lateMove'].how = "noop"
            /\ lateMove' \notin Range(onStartLog')
       /\ \A i \in DOMAIN legs :
            /\ (isStopped /\ leg[i].status = "queued") =>
                 /\ ~Registered(i)' /\ ~Pending(i)'
                 /\ i \notin Range(onStartLog') /\ i \notin impulses'
                 /\ leg'[i].status # "queued" =>
                      /\ leg'[i].status = "resolved" /\ leg'[i].how = "noop"
                      /\ leg'[i].teleports = 0 /\ leg'[i].speedResets = 0
                      /\ afterStop' = afterStop
                      /\ <<valid, location, onGround, speed, rotation, impulses>>' =
                           <<valid, location, onGround, speed, rotation, impulses>>
            /\ leg[i].how = "noop" =>
                 /\ leg'[i] = leg[i]
                 /\ ~Registered(i)' /\ ~Pending(i)'
                 /\ i \notin Range(onStartLog') /\ i \notin impulses'
       /\ \A i \in DOMAIN legs' :
            (isStopped' /\ leg'[i].status = "queued" /\ Resolved(i - 1)')
              => MicrotaskReady']_vars

C19_Witness ==
    /\ isStopped
    /\ Len(legs) = 2
    /\ lateMove = 2
    /\ leg[1].how = "success"
    /\ leg[2].status = "resolved" /\ leg[2].how = "noop"
    /\ onStartLog = <<1>>

\* C20: a step that changes the continuations of start() (the call, or the
\* notification when it runs) changes nothing else of the manager, the entity or
\* the scheduler; the call appends one continuation for the chain as it stands;
\* and a queued leg whose predecessor has resolved always has a reaction ready
\* to run, whether or not start() was ever called.
C20_StartOnlyAttaches ==
    [][/\ starts' # starts =>
            <<legs, leg, config, isStopped, intervalHandles, valid, location,
              onGround, speed, rotation, intervals, runs, stops, onStartLog,
              onStopCount, impulses, stopAt, afterStop>>' =
            <<legs, leg, config, isStopped, intervalHandles, valid, location,
              onGround, speed, rotation, intervals, runs, stops, onStartLog,
              onStopCount, impulses, stopAt, afterStop>>
       /\ Len(starts') > Len(starts) =>
            starts' = Append(starts, [upTo |-> Len(legs), fired |-> 0])
       /\ \A i \in DOMAIN legs' :
            (leg'[i].status = "queued" /\ Resolved(i - 1)') => MicrotaskReady'
       /\ \A i \in DOMAIN legs :
            (leg[i].status = "queued" /\ leg'[i].status # "queued") =>
              /\ Resolved(i - 1)
              /\ starts' = starts]_vars

C20_Witness ==
    /\ starts = <<>>
    /\ Len(legs) = 2
    /\ leg[1].how = "success"
    /\ leg[2].status = "running" /\ Registered(2)
    /\ onStartLog = <<1, 2>>
    /\ 2 \in impulses

====
